---- MODULE Spec2Model ----
(***************************************************************************)
(* phf::Set and phf::OrderedSet: two read-only sets layered over a         *)
(* perfect-hash map.  The set layer (src/phf/src/set.rs and                *)
(* src/phf/src/ordered_set.rs) is modelled operation by operation; the map *)
(* it forwards to (Map, OrderedMap and their Keys iterators) is modelled   *)
(* by its contract.                                                        *)
(*                                                                         *)
(* A key is a small integer.  A reference to a stored key is modelled by   *)
(* the key it points at.  Positions are zero-based as in the source; the   *)
(* entries of a map are a TLA+ sequence, so position i is entries[i + 1].  *)
(***************************************************************************)
EXTENDS Integers, Sequences, FiniteSets, TLC

\* Bounds of the model: the key universe 1..MaxKey and the longest key list.
MaxKey == 3
MaxLen == 3

Keys == 1..MaxKey

Kinds == {"Set", "OrderedSet"}

\* Option<T>: None is the empty sequence, Some(v) the one-element sequence.
None == <<>>
Some(v) == <<v>>

Range(s) == {s[i] : i \in 1..Len(s)}

Min(a, b) == IF a <= b THEN a ELSE b

RECURSIVE Reverse(_)
Reverse(s) == IF s = <<>> THEN <<>> ELSE Append(Reverse(Tail(s)), Head(s))

\* Key lists with all keys distinct (the builder's precondition).
InjSeqs ==
    {s \in UNION {[1..n -> Keys] : n \in 0..MaxLen} :
        \A i, j \in 1..Len(s) : i # j => s[i] # s[j]}

\* The distinct-key lists written in ascending order.
AscSeqs == {s \in InjSeqs : \A i, j \in 1..Len(s) : i < j => s[i] < s[j]}

\* Every arrangement of the keys of list s.
Perms(s) == {t \in InjSeqs : Len(t) = Len(s) /\ Range(t) = Range(s)}

(***************************************************************************)
(* The perfect-hash map, by its contract.                                  *)
(***************************************************************************)

\* Map<T, ()> / OrderedMap<T, ()>: the entries in the map's canonical order.
MapOf(es) == [entries |-> es]

Map_len(m) == Len(m.entries)

Map_contains_key(m, key) == \E i \in 1..Len(m.entries) : m.entries[i] = key

Map_get_key(m, key) ==
    IF \E i \in 1..Len(m.entries) : m.entries[i] = key
    THEN Some(m.entries[CHOOSE i \in 1..Len(m.entries) : m.entries[i] = key])
    ELSE None

OrderedMap_get_index(m, key) ==
    IF \E i \in 1..Len(m.entries) : m.entries[i] = key
    THEN Some((CHOOSE i \in 1..Len(m.entries) : m.entries[i] = key) - 1)
    ELSE None

\* map::Keys / ordered_map::Keys: a cursor pair over the entries; the
\* remaining range is the positions front .. back - 1.
Map_keys(m) == [slice |-> m.entries, front |-> 0, back |-> Len(m.entries)]

\* A call on a `&mut self` iterator gives the iterator afterwards and the
\* value returned.
Keys_next(k) ==
    IF k.front < k.back
    THEN [self |-> [k EXCEPT !.front = k.front + 1],
          ret |-> Some(k.slice[k.front + 1])]
    ELSE [self |-> k, ret |-> None]

Keys_next_back(k) ==
    IF k.front < k.back
    THEN [self |-> [k EXCEPT !.back = k.back - 1],
          ret |-> Some(k.slice[k.back])]
    ELSE [self |-> k, ret |-> None]

Keys_size_hint(k) == <<k.back - k.front, Some(k.back - k.front)>>

Keys_indexable(k) == k.back - k.front

Keys_idx(k, index) ==
    IF index < k.back - k.front
    THEN [self |-> k, ret |-> Some(k.slice[k.front + index + 1])]
    ELSE [self |-> k, ret |-> None]

BuildMap(kind, keys) ==
    IF kind = "OrderedSet" THEN {MapOf(keys)} ELSE {MapOf(p) : p \in Perms(keys)}

(***************************************************************************)
(* set.rs: Set<T> and its iterator Items.                                  *)
(***************************************************************************)

\* pub struct Set<T> { pub map: Map<T, ()> }
SetOf(m) == [map |-> m]

Set_get_key(self, key) == Map_get_key(self.map, key)

\* Set::contains with the presence test inverted.
Set_contains_inverted(self, value) == ~Map_contains_key(self.map, value)

Set_contains(self, value) == Map_contains_key(self.map, value)

Set_len(self) == Map_len(self.map)

\* Set::is_empty comparing the length the wrong way.
Set_is_empty_inverted(self) == Set_len(self) # 0

Set_is_empty(self) == Set_len(self) = 0

\* pub struct Items { iter: map::Keys }
Set_iter(self) == [iter |-> Map_keys(self.map)]

Items_next(self) ==
    LET r == Keys_next(self.iter)
    IN  [self |-> [iter |-> r.self], ret |-> r.ret]

\* Items::size_hint left at the Iterator trait's default, (0, None).
Items_size_hint_default(self) == <<0, None>>

Items_size_hint(self) == Keys_size_hint(self.iter)

Items_next_back(self) ==
    LET r == Keys_next_back(self.iter)
    IN  [self |-> [iter |-> r.self], ret |-> r.ret]

\* self.iter().any(|value| other.contains(value)), from the iterator `items`.
RECURSIVE Items_any_contains(_, _)
Items_any_contains(items, other) ==
    LET r == Items_next(items)
    IN  IF r.ret = None THEN FALSE
        ELSE IF Set_contains(other, r.ret[1]) THEN TRUE
        ELSE Items_any_contains(r.self, other)

\* self.iter().all(|value| other.contains(value)), from the iterator `items`.
RECURSIVE Items_all_contains(_, _)
Items_all_contains(items, other) ==
    LET r == Items_next(items)
    IN  IF r.ret = None THEN TRUE
        ELSE IF ~Set_contains(other, r.ret[1]) THEN FALSE
        ELSE Items_all_contains(r.self, other)

Set_is_disjoint(self, other) == ~Items_any_contains(Set_iter(self), other)

\* Set::is_subset written with any in place of all.
Set_is_subset_any(self, other) == Items_any_contains(Set_iter(self), other)

Set_is_subset(self, other) == Items_all_contains(Set_iter(self), other)

\* Set::is_superset without the exchange of self and other.
Set_is_superset_unswapped(self, other) == Set_is_subset(self, other)

Set_is_superset(self, other) == Set_is_subset(other, self)

(***************************************************************************)
(* ordered_set.rs: OrderedSet<T> and its iterator Iter.                    *)
(***************************************************************************)

\* pub struct OrderedSet<T> { pub map: OrderedMap<T, ()> }
OrderedSetOf(m) == [map |-> m]

OrderedSet_len(self) == Map_len(self.map)

OrderedSet_is_empty(self) == OrderedSet_len(self) = 0

OrderedSet_get_key(self, key) == Map_get_key(self.map, key)

\* OrderedSet::get_index counting positions from one.
OrderedSet_get_index_one_based(self, key) ==
    LET r == OrderedMap_get_index(self.map, key)
    IN  IF r = None THEN None ELSE Some(r[1] + 1)

OrderedSet_get_index(self, key) == OrderedMap_get_index(self.map, key)

OrderedSet_contains(self, value) == Map_contains_key(self.map, value)

\* pub struct Iter { iter: ordered_map::Keys }
OrderedSet_iter(self) == [iter |-> Map_keys(self.map)]

Iter_next(self) ==
    LET r == Keys_next(self.iter)
    IN  [self |-> [iter |-> r.self], ret |-> r.ret]

Iter_size_hint(self) == Keys_size_hint(self.iter)

\* Iter::next_back forwarding to the front end of the map's iterator.
Iter_next_back_from_front(self) ==
    LET r == Keys_next(self.iter)
    IN  [self |-> [iter |-> r.self], ret |-> r.ret]

Iter_next_back(self) ==
    LET r == Keys_next_back(self.iter)
    IN  [self |-> [iter |-> r.self], ret |-> r.ret]

Iter_indexable(self) == Keys_indexable(self.iter)

\* Iter::idx consuming the items up to the one it returns.
Iter_idx_consuming(self, index) ==
    LET r == Keys_idx(self.iter, index)
    IN  [self |-> IF r.ret = None THEN [iter |-> r.self]
                  ELSE [iter |-> [r.self EXCEPT !.front = @ + index + 1]],
         ret |-> r.ret]

Iter_idx(self, index) ==
    LET r == Keys_idx(self.iter, index)
    IN  [self |-> [iter |-> r.self], ret |-> r.ret]

RECURSIVE Iter_any_contains(_, _)
Iter_any_contains(iter, other) ==
    LET r == Iter_next(iter)
    IN  IF r.ret = None THEN FALSE
        ELSE IF OrderedSet_contains(other, r.ret[1]) THEN TRUE
        ELSE Iter_any_contains(r.self, other)

RECURSIVE Iter_all_contains(_, _)
Iter_all_contains(iter, other) ==
    LET r == Iter_next(iter)
    IN  IF r.ret = None THEN TRUE
        ELSE IF ~OrderedSet_contains(other, r.ret[1]) THEN FALSE
        ELSE Iter_all_contains(r.self, other)

\* OrderedSet::is_disjoint without the negation.
OrderedSet_is_disjoint_unnegated(self, other) ==
    Iter_any_contains(OrderedSet_iter(self), other)

OrderedSet_is_disjoint(self, other) ==
    ~Iter_any_contains(OrderedSet_iter(self), other)

OrderedSet_is_subset(self, other) ==
    Iter_all_contains(OrderedSet_iter(self), other)

OrderedSet_is_superset(self, other) == OrderedSet_is_subset(other, self)

(***************************************************************************)
(* The operations by the kind of set they are called on.                   *)
(***************************************************************************)

len(kind, s) == IF kind = "Set" THEN Set_len(s) ELSE OrderedSet_len(s)

is_empty(kind, s) ==
    IF kind = "Set" THEN Set_is_empty(s) ELSE OrderedSet_is_empty(s)

get_key(kind, s, x) ==
    IF kind = "Set" THEN Set_get_key(s, x) ELSE OrderedSet_get_key(s, x)

contains(kind, s, x) ==
    IF kind = "Set" THEN Set_contains(s, x) ELSE OrderedSet_contains(s, x)

iter(kind, s) == IF kind = "Set" THEN Set_iter(s) ELSE OrderedSet_iter(s)

next(kind, i) == IF kind = "Set" THEN Items_next(i) ELSE Iter_next(i)

next_back(kind, i) ==
    IF kind = "Set" THEN Items_next_back(i) ELSE Iter_next_back(i)

size_hint(kind, i) ==
    IF kind = "Set" THEN Items_size_hint(i) ELSE Iter_size_hint(i)

is_disjoint(kind, a, b) ==
    IF kind = "Set" THEN Set_is_disjoint(a, b) ELSE OrderedSet_is_disjoint(a, b)

is_subset(kind, a, b) ==
    IF kind = "Set" THEN Set_is_subset(a, b) ELSE OrderedSet_is_subset(a, b)

is_superset(kind, a, b) ==
    IF kind = "Set" THEN Set_is_superset(a, b) ELSE OrderedSet_is_superset(a, b)

\* The sets the builder can produce from a key list.
Build(kind, keys) ==
    IF kind = "Set"
    THEN {SetOf(m) : m \in BuildMap(kind, keys)}
    ELSE {OrderedSetOf(m) : m \in BuildMap(kind, keys)}

\* The key lists handed to the builder.  A Set does not keep the order of
\* its list, so its lists are taken in ascending order.
KeyLists(kind) == IF kind = "Set" THEN AscSeqs ELSE InjSeqs

(***************************************************************************)
(* State.                                                                  *)
(***************************************************************************)
VARIABLES
    kind,       \* which of the two set types A and B are
    keysA,      \* the key list A was built from
    keysB,      \* the key list B was built from
    A, B,       \* the two sets
    it,         \* Option of the iterator over A held by the caller
    fwd,        \* the items next() returned since it was created
    bwd,        \* the items next_back() returned since it was created
    ret,        \* the last call on A or on it, and what it returned
    run         \* Option of the set-algebra call in progress

vars == <<kind, keysA, keysB, A, B, it, fwd, bwd, ret, run>>

NoRet == [op |-> "none", arg |-> 0, val |-> None]

InitSets ==
    /\ kind \in Kinds
    /\ keysA \in KeyLists(kind)
    /\ A \in Build(kind, keysA)
    /\ it = None
    /\ fwd = <<>>
    /\ bwd = <<>>
    /\ ret = NoRet
    /\ run = None

\* One set, queried and iterated.
Init ==
    /\ InitSets
    /\ keysB = <<>>
    /\ B \in Build(kind, keysB)

Returns(op, arg, val) ==
    /\ ret' = [op |-> op, arg |-> arg, val |-> val]
    /\ UNCHANGED <<kind, keysA, keysB, A, B, run>>

CallLen ==
    /\ Returns("len", 0, len(kind, A))
    /\ UNCHANGED <<it, fwd, bwd>>

CallIsEmpty ==
    /\ Returns("is_empty", 0, is_empty(kind, A))
    /\ UNCHANGED <<it, fwd, bwd>>

CallContains(x) ==
    /\ Returns("contains", x, contains(kind, A, x))
    /\ UNCHANGED <<it, fwd, bwd>>

CallGetKey(x) ==
    /\ Returns("get_key", x, get_key(kind, A, x))
    /\ UNCHANGED <<it, fwd, bwd>>

CallGetIndex(x) ==
    /\ kind = "OrderedSet"
    /\ Returns("get_index", x, OrderedSet_get_index(A, x))
    /\ UNCHANGED <<it, fwd, bwd>>

CallIter ==
    /\ it' = Some(iter(kind, A))
    /\ fwd' = <<>>
    /\ bwd' = <<>>
    /\ Returns("iter", 0, None)

CallNext ==
    /\ it # None
    /\ LET r == next(kind, it[1])
       IN  /\ it' = Some(r.self)
           /\ fwd' = IF r.ret = None THEN fwd ELSE Append(fwd, r.ret[1])
           /\ Returns("next", 0, r.ret)
    /\ UNCHANGED bwd

CallNextBack ==
    /\ it # None
    /\ LET r == next_back(kind, it[1])
       IN  /\ it' = Some(r.self)
           /\ bwd' = IF r.ret = None THEN bwd ELSE Append(bwd, r.ret[1])
           /\ Returns("next_back", 0, r.ret)
    /\ UNCHANGED fwd

CallSizeHint ==
    /\ it # None
    /\ Returns("size_hint", 0, size_hint(kind, it[1]))
    /\ UNCHANGED <<it, fwd, bwd>>

CallIndexable ==
    /\ kind = "OrderedSet"
    /\ it # None
    /\ Returns("indexable", 0, Iter_indexable(it[1]))
    /\ UNCHANGED <<it, fwd, bwd>>

CallIdx(index) ==
    /\ kind = "OrderedSet"
    /\ it # None
    /\ LET r == Iter_idx(it[1], index)
       IN  /\ it' = Some(r.self)
           /\ Returns("idx", index, r.ret)
    /\ UNCHANGED <<fwd, bwd>>

Next ==
    \/ CallLen
    \/ CallIsEmpty
    \/ \E x \in Keys : CallContains(x)
    \/ \E x \in Keys : CallGetKey(x)
    \/ \E x \in Keys : CallGetIndex(x)
    \/ CallIter
    \/ CallNext
    \/ CallNextBack
    \/ CallSizeHint
    \/ CallIndexable
    \/ \E index \in 0..(MaxLen + 1) : CallIdx(index)

Spec == Init /\ [][Next]_vars

(***************************************************************************)
(* Properties of one set, its lookups and its iterator (under Spec).       *)
(***************************************************************************)

\* What the call recorded in ret must have returned, given the key list.
Stored(x) == x \in Range(keysA)

\* C1: a key the set was built from is contained and get_key returns the
\* stored key equal to it; a key never inserted is not contained and
\* get_key is absent; so get_key is present exactly when contains is true.
\* The same holds of the value the last contains or get_key call returned.
C1_Membership ==
    /\ \A x \in Keys :
        /\ Stored(x) =>
            /\ contains(kind, A, x)
            /\ get_key(kind, A, x) = Some(x)
            /\ get_key(kind, A, x)[1] \in Range(A.map.entries)
        /\ ~Stored(x) =>
            /\ ~contains(kind, A, x)
            /\ get_key(kind, A, x) = None
        /\ (get_key(kind, A, x) # None) <=> contains(kind, A, x)
    /\ ret.op = "contains" => ret.val = Stored(ret.arg)
    /\ ret.op = "get_key" =>
        ret.val = IF Stored(ret.arg) THEN Some(ret.arg) ELSE None

\* A Set whose table order differs from its key list returned a stored key.
C1_Witness ==
    /\ kind = "Set"
    /\ A.map.entries # keysA
    /\ ret.op = "get_key"
    /\ ret.val = Some(ret.arg)

\* C2: on an OrderedSet get_index is a bijection between the stored keys
\* and 0..len-1: the key at position i of the definition order has index i,
\* two different stored keys have different indices, every index is below
\* len, and get_index is absent for a key that is not stored.
C2_IndexBijection ==
    kind = "OrderedSet" =>
        /\ \A i \in 0..(OrderedSet_len(A) - 1) :
            OrderedSet_get_index(A, keysA[i + 1]) = Some(i)
        /\ \A x, y \in Keys :
            (Stored(x) /\ Stored(y) /\ x # y) =>
                OrderedSet_get_index(A, x) # OrderedSet_get_index(A, y)
        /\ \A x \in Keys :
            /\ Stored(x) =>
                /\ OrderedSet_get_index(A, x) # None
                /\ OrderedSet_get_index(A, x)[1] \in 0..(OrderedSet_len(A) - 1)
            /\ ~Stored(x) => OrderedSet_get_index(A, x) = None
        /\ ret.op = "get_index" =>
            ret.val = IF Stored(ret.arg)
                      THEN Some((CHOOSE i \in 1..Len(keysA) : keysA[i] = ret.arg) - 1)
                      ELSE None

\* get_index returned the last position of a three-key OrderedSet.
C2_Witness ==
    /\ kind = "OrderedSet"
    /\ Len(keysA) >= 3
    /\ ret.op = "get_index"
    /\ ret.val = Some(Len(keysA) - 1)

\* C3: on an OrderedSet the items next() has returned are the first items of
\* the definition order, with get_index 0, 1, 2, ..., and the items
\* next_back() has returned are the first items of the reversed definition
\* order.
C3_DefinitionOrder ==
    (kind = "OrderedSet" /\ it # None) =>
        /\ Len(fwd) <= Len(keysA)
        /\ Len(bwd) <= Len(keysA)
        /\ fwd = SubSeq(keysA, 1, Len(fwd))
        /\ \A m \in 1..Len(fwd) : OrderedSet_get_index(A, fwd[m]) = Some(m - 1)
        /\ bwd = SubSeq(Reverse(keysA), 1, Len(bwd))

\* A fresh iterator was driven to the end by next_back() alone.
C3_Witness ==
    /\ kind = "OrderedSet"
    /\ it # None
    /\ Len(keysA) >= 2
    /\ fwd = <<>>
    /\ Len(bwd) = Len(keysA)
    /\ ret.op = "next_back"
    /\ ret.val = None

\* C4: when next() alone has driven a fresh iterator to its end, the number
\* of items it produced is len(); is_empty() is true exactly when len() is
\* 0, which is exactly when a fresh iterator yields nothing.
C4_LenCountsItems ==
    /\ (it # None /\ bwd = <<>> /\ ret.op = "next" /\ ret.val = None) =>
        Len(fwd) = len(kind, A)
    /\ len(kind, A) = Len(keysA)
    /\ is_empty(kind, A) <=> (len(kind, A) = 0)
    /\ is_empty(kind, A) <=> (next(kind, iter(kind, A)).ret = None)
    /\ ret.op = "len" => ret.val = Len(keysA)
    /\ ret.op = "is_empty" => ret.val = (Len(keysA) = 0)

\* next() alone exhausted a fresh iterator over a non-empty set.
C4_Witness ==
    /\ it # None
    /\ bwd = <<>>
    /\ Len(fwd) >= 2
    /\ ret.op = "next"
    /\ ret.val = None

\* C8: after any next() and next_back() calls, idx(i) on an OrderedSet
\* iterator is absent for every i >= indexable(), is the item i places after
\* the front of the remaining range for every i < indexable(), and leaves
\* the iterator as it was.
C8_IdxTotal ==
    (kind = "OrderedSet" /\ it # None) =>
        /\ Iter_indexable(it[1]) = Len(keysA) - Len(fwd) - Len(bwd)
        /\ \A i \in 0..(MaxLen + 1) :
            LET r == Iter_idx(it[1], i)
            IN  /\ r.self = it[1]
                /\ i >= Iter_indexable(it[1]) => r.ret = None
                /\ i < Iter_indexable(it[1]) =>
                    r.ret = Some(keysA[Len(fwd) + i + 1])
        /\ ret.op = "idx" =>
            ret.val = IF ret.arg >= Len(keysA) - Len(fwd) - Len(bwd)
                      THEN None
                      ELSE Some(keysA[Len(fwd) + ret.arg + 1])
        /\ ret.op = "indexable" =>
            ret.val = Len(keysA) - Len(fwd) - Len(bwd)

\* idx found the one item left after both ends had moved.
C8_Witness ==
    /\ kind = "OrderedSet"
    /\ it # None
    /\ Len(fwd) >= 1
    /\ Len(bwd) >= 1
    /\ ret.op = "idx"
    /\ ret.val # None

\* C9: after j successful next() and k successful next_back() calls on an
\* iterator over n elements, size_hint is exactly n - j - k on both bounds;
\* the cursors have not crossed and no item was yielded twice; once
\* j + k = n every element has been yielded and both calls return absent.
C9_ExactRemaining ==
    it # None =>
        LET n == Len(keysA)
            j == Len(fwd)
            k == Len(bwd)
        IN  /\ j + k <= n
            /\ size_hint(kind, it[1]) = <<n - j - k, Some(n - j - k)>>
            /\ it[1].iter.front <= it[1].iter.back
            /\ Cardinality(Range(fwd) \cup Range(bwd)) = j + k
            /\ Range(fwd) \cup Range(bwd) \subseteq Range(keysA)
            /\ j + k = n =>
                /\ Range(fwd) \cup Range(bwd) = Range(keysA)
                /\ next(kind, it[1]).ret = None
                /\ next_back(kind, it[1]).ret = None
            /\ j + k < n =>
                /\ next(kind, it[1]).ret # None
                /\ next_back(kind, it[1]).ret # None
            /\ ret.op = "size_hint" => ret.val = <<n - j - k, Some(n - j - k)>>
            /\ (ret.op \in {"next", "next_back"} /\ ret.val = None) => j + k = n

\* Both ends were consumed until they met, and the next call was absent.
C9_Witness ==
    /\ it # None
    /\ Len(fwd) >= 1
    /\ Len(bwd) >= 1
    /\ Len(fwd) + Len(bwd) = Len(keysA)
    /\ ret.op \in {"next", "next_back"}
    /\ ret.val = None

(***************************************************************************)
(* The set-algebra predicates, one pulled item at a time (under SpecAlg).  *)
(* A call is_disjoint / is_subset / is_superset drives Iterator::any or    *)
(* Iterator::all over the iterator of one set (drv) and tests each item    *)
(* against the other set (against).  visited counts the items pulled.      *)
(***************************************************************************)

\* self.iter().any(|value| other.contains(value)): the loop before its
\* first pull.
StartAny(k, self, other) ==
    [fn |-> "any", drv |-> iter(k, self), against |-> other,
     visited |-> 0, done |-> FALSE, val |-> FALSE]

\* self.iter().all(|value| other.contains(value)): the loop before its
\* first pull.
StartAll(k, self, other) ==
    [fn |-> "all", drv |-> iter(k, self), against |-> other,
     visited |-> 0, done |-> FALSE, val |-> TRUE]

\* One round of any: pull an item; stop with true at the first item the
\* closure accepts, with false when the iterator is empty.
StepAny(k, l) ==
    LET n == next(k, l.drv)
    IN  IF n.ret = None
        THEN [l EXCEPT !.drv = n.self, !.done = TRUE, !.val = FALSE]
        ELSE IF contains(k, l.against, n.ret[1])
        THEN [l EXCEPT !.drv = n.self, !.visited = @ + 1,
                       !.done = TRUE, !.val = TRUE]
        ELSE [l EXCEPT !.drv = n.self, !.visited = @ + 1]

\* One round of all that does not stop at the first rejected item.
StepAll_exhaustive(k, l) ==
    LET n == next(k, l.drv)
    IN  IF n.ret = None
        THEN [l EXCEPT !.drv = n.self, !.done = TRUE]
        ELSE [l EXCEPT !.drv = n.self, !.visited = @ + 1,
                       !.val = @ /\ contains(k, l.against, n.ret[1])]

\* One round of all: pull an item; stop with false at the first item the
\* closure rejects, with true when the iterator is empty.
StepAll(k, l) ==
    LET n == next(k, l.drv)
    IN  IF n.ret = None
        THEN [l EXCEPT !.drv = n.self, !.done = TRUE, !.val = TRUE]
        ELSE IF ~contains(k, l.against, n.ret[1])
        THEN [l EXCEPT !.drv = n.self, !.visited = @ + 1,
                       !.done = TRUE, !.val = FALSE]
        ELSE [l EXCEPT !.drv = n.self, !.visited = @ + 1]

\* The loop each predicate runs.
Loop_is_disjoint(k, self, other) == StartAny(k, self, other)

Loop_is_subset(k, self, other) == StartAll(k, self, other)

Loop_is_superset(k, self, other) == Loop_is_subset(k, other, self)

\* What the predicate returns from its finished loop.
Result(op, l) == IF op = "is_disjoint" THEN ~l.val ELSE l.val

\* Two sets, and the predicates called on them.
InitAlg ==
    /\ InitSets
    /\ keysB \in KeyLists(kind)
    /\ B \in Build(kind, keysB)

Idle == IF run = None THEN TRUE ELSE run[1].loop.done

Begin(op, self, other, l) ==
    /\ Idle
    /\ run' = Some([op |-> op, self |-> self, other |-> other, loop |-> l])
    /\ UNCHANGED <<kind, keysA, keysB, A, B, it, fwd, bwd, ret>>

Call_is_disjoint(self, other) ==
    Begin("is_disjoint", self, other, Loop_is_disjoint(kind, self, other))

Call_is_subset(self, other) ==
    Begin("is_subset", self, other, Loop_is_subset(kind, self, other))

Call_is_superset(self, other) ==
    Begin("is_superset", self, other, Loop_is_superset(kind, self, other))

Pull ==
    /\ run # None
    /\ ~run[1].loop.done
    /\ run' = Some([run[1] EXCEPT !.loop =
                        IF @.fn = "any" THEN StepAny(kind, @)
                                        ELSE StepAll(kind, @)])
    /\ UNCHANGED <<kind, keysA, keysB, A, B, it, fwd, bwd, ret>>

\* The predicates are called on A, against B or against A itself; InitAlg
\* draws A and B from the same sets, so every ordered pair is covered.
NextAlg ==
    \/ \E other \in {A, B} : Call_is_disjoint(A, other)
    \/ \E other \in {A, B} : Call_is_subset(A, other)
    \/ \E other \in {A, B} : Call_is_superset(A, other)
    \/ Pull

SpecAlg == InitAlg /\ [][NextAlg]_vars

(***************************************************************************)
(* Properties of the set-algebra predicates (under SpecAlg).               *)
(***************************************************************************)

\* The key list a set was built from, and its elements.
KeyList(s) == IF s = A THEN keysA ELSE keysB

Elems(s) == Range(KeyList(s))

\* The predicate call in progress has returned.
Returned(op) == IF run = None THEN FALSE ELSE run[1].op = op /\ run[1].loop.done

\* C5: A.is_subset(B) is true exactly when every element of A is contained
\* in B, and so whenever A is empty; a call that has returned gave that
\* value.
C5_SubsetIffAllContained ==
    /\ \A a, b \in {A, B} :
        /\ is_subset(kind, a, b) <=> (\A x \in Elems(a) : contains(kind, b, x))
        /\ is_subset(kind, a, b) <=> (Elems(a) \subseteq Elems(b))
        /\ Elems(a) = {} => is_subset(kind, a, b)
    /\ Returned("is_subset") =>
        Result("is_subset", run[1].loop)
            = (Elems(run[1].self) \subseteq Elems(run[1].other))

\* is_subset returned true for a set of two or more keys inside a larger one.
C5_Witness ==
    /\ Returned("is_subset")
    /\ Result("is_subset", run[1].loop)
    /\ Cardinality(Elems(run[1].self)) >= 2
    /\ Cardinality(Elems(run[1].other)) > Cardinality(Elems(run[1].self))

\* C6: A.is_disjoint(B) is true exactly when no element of A is contained in
\* B, and equals B.is_disjoint(A); a call that has returned gave that value.
C6_DisjointIffNoneContained ==
    /\ \A a, b \in {A, B} :
        /\ is_disjoint(kind, a, b) <=> (\A x \in Elems(a) : ~contains(kind, b, x))
        /\ is_disjoint(kind, a, b) <=> (Elems(a) \cap Elems(b) = {})
        /\ is_disjoint(kind, a, b) <=> is_disjoint(kind, b, a)
    /\ Returned("is_disjoint") =>
        Result("is_disjoint", run[1].loop)
            = (Elems(run[1].self) \cap Elems(run[1].other) = {})

\* is_disjoint returned false for two sets that share only the last item of
\* the driving set.
C6_Witness ==
    /\ Returned("is_disjoint")
    /\ ~Result("is_disjoint", run[1].loop)
    /\ run[1].loop.visited >= 2
    /\ Cardinality(Elems(run[1].self) \cap Elems(run[1].other)) = 1
    /\ Elems(run[1].self) # Elems(run[1].other)

\* C7: S.is_subset(S) is always true; A.is_superset(B) equals
\* B.is_subset(A); and when A.is_disjoint(B) and A.is_subset(B) both hold, A
\* is empty.
C7_AlgebraLaws ==
    /\ \A s \in {A, B} : is_subset(kind, s, s)
    /\ \A a, b \in {A, B} :
        /\ is_superset(kind, a, b) <=> is_subset(kind, b, a)
        /\ is_superset(kind, a, b) <=> (Elems(b) \subseteq Elems(a))
        /\ (is_disjoint(kind, a, b) /\ is_subset(kind, a, b)) =>
            is_empty(kind, a)
    /\ Returned("is_superset") =>
        Result("is_superset", run[1].loop)
            = is_subset(kind, run[1].other, run[1].self)
    /\ (Returned("is_subset") /\ run[1].self = run[1].other) =>
        Result("is_subset", run[1].loop)

\* is_superset returned true for a set strictly larger than the other,
\* which is not a subset of it.
C7_Witness ==
    /\ Returned("is_superset")
    /\ Result("is_superset", run[1].loop)
    /\ Elems(run[1].other) # {}
    /\ ~is_subset(kind, run[1].self, run[1].other)

\* C10 as claimed: each predicate pulls at most min(|A|,|B|) + 1 items from
\* the set whose iterator drives it.
C10_BoundedBySmaller ==
    run # None =>
        run[1].loop.visited
            <= Min(len(kind, run[1].self), len(kind, run[1].other)) + 1

\* C10 as amended: the driver is self for is_disjoint and is_subset and
\* other for is_superset; is_subset and is_superset pull at most
\* min(|A|,|B|) + 1 items from it; is_disjoint pulls at most |self| items,
\* at most one more than the items of self that are not in other, and all
\* |self| of them when it returns true.
C10_DriverBound ==
    run # None =>
        LET r == run[1]
            v == r.loop.visited
            drv == IF r.op = "is_superset" THEN r.other ELSE r.self
        IN  /\ r.loop.drv.iter.slice = drv.map.entries
            /\ v = r.loop.drv.iter.front
            /\ v <= len(kind, drv)
            /\ r.op \in {"is_subset", "is_superset"} =>
                v <= Min(len(kind, r.self), len(kind, r.other)) + 1
            /\ r.op = "is_disjoint" =>
                /\ v <= Cardinality(Elems(r.self) \ Elems(r.other)) + 1
                /\ (r.loop.done /\ Result(r.op, r.loop)) => v = len(kind, r.self)

\* is_superset stopped one item past the size of the smaller set.
C10_Witness ==
    /\ Returned("is_superset")
    /\ len(kind, run[1].self) >= 1
    /\ len(kind, run[1].other) > len(kind, run[1].self) + 1
    /\ run[1].loop.visited = len(kind, run[1].self) + 1

====
